---- MODULE Spec2Model ----
(***************************************************************************)
(* State-machine model of contracts/GhostStake.sol: the encrypted Gold     *)
(* ledger with claimInitialGold, stakeGold and withdrawStakedGold.         *)
(*                                                                         *)
(* An euint32 is modelled as a handle record: the uninitialised handle     *)
(* (bytes32(0)) or a ciphertext carrying its clear value modulo 2^32.      *)
(* A result handle is a hash of the operation and its operand handles       *)
(* (@fhevm/solidity ^0.8.0), so a value computed from constants only has   *)
(* the same handle in every call: the field pub marks such handles, and    *)
(* their persistent ACL entries are kept in pubAcl, keyed by the value.    *)
(* A handle computed from an external input is unique to the slot it is    *)
(* stored in; its ACL entries are kept in acl.  goldClaimedCount counts    *)
(* the GoldClaimed entries of the event log per player.  The variable tx   *)
(* is the receipt of the last transaction: function, sender, input,        *)
(* revert reason and emitted logs, with the sender's decrypted balance and *)
(* stake as they were when the transaction started.                        *)
(*                                                                         *)
(* The variable app is the state of the StakeApp client (React component   *)
(* of one browser tab): its hooks' state, the position of the running      *)
(* handler and of the running decryptBalances, and the last handler call.  *)
(* The contract specifications leave it as it is; SpecClient drives the    *)
(* ledger through the client's handlers.                                   *)
(***************************************************************************)
EXTENDS Integers, Sequences, FiniteSets, TLC

\* ---------------------------------------------------------------- bounds
NumPlayers == 2
AmountUnit == 50
MaxAmountUnits == 3

\* ------------------------------------------------------ program constants
INITIAL_GRANT == 100
STATUS_OK == 0
STATUS_INSUFFICIENT_STAKE == 2

\* Mutant: stakeGold reports the withdraw failure code.
STATUS_INSUFFICIENT_BALANCE_asStake == STATUS_INSUFFICIENT_STAKE

STATUS_INSUFFICIENT_BALANCE == 1
LIMB == 65536

Players == 1..NumPlayers
Contract == 0
Principals == Players \cup {Contract}

\* ------------------------------------------------------------ uint32 words
\* A uint32 is kept as two 16-bit limbs, value = hi * 2^16 + lo, so that the
\* whole range 0 .. 2^32-1 and its wrap-around are represented exactly.
Word(n) == [hi |-> (n \div LIMB) % LIMB, lo |-> n % LIMB]

WordMax == [hi |-> LIMB - 1, lo |-> LIMB - 1]

\* (a + b) mod 2^32
WordAdd(a, b) ==
    LET lo == a.lo + b.lo
    IN  [hi |-> (a.hi + b.hi + (lo \div LIMB)) % LIMB, lo |-> lo % LIMB]

\* (a - b) mod 2^32
WordSub(a, b) ==
    LET lo == a.lo - b.lo
        borrow == IF lo < 0 THEN 1 ELSE 0
    IN  [hi |-> (a.hi - b.hi - borrow + LIMB) % LIMB, lo |-> (lo + LIMB) % LIMB]

WordGe(a, b) == a.hi > b.hi \/ (a.hi = b.hi /\ a.lo >= b.lo)

\* Clear amounts a caller may encrypt: small multiples of the unit, and two
\* values at the top of the uint32 range (so that add/sub wrap around).
Amounts ==
    {Word(k * AmountUnit) : k \in 0..MaxAmountUnits}
        \cup {WordMax, WordSub(Word(0), Word(AmountUnit))}

\* externalEuint32 + inputProof: either the proof verifies and the handle
\* carries a clear amount, or it does not verify.
Inputs ==
    [valid : {TRUE}, amount : Amounts]
        \cup {[valid |-> FALSE, amount |-> Word(0)]}

\* ------------------------------------------------------------ euint32 / FHE
ZeroHandle == [isInit |-> FALSE, clear |-> Word(0), pub |-> FALSE]

Ciphertext(w, pub) == [isInit |-> TRUE, clear |-> w, pub |-> pub]

\* Trivial encryption of a constant: the same handle in every call.
FHE_asEuint32(n) == Ciphertext(Word(n), TRUE)

FHE_add(a, b) == Ciphertext(WordAdd(a.clear, b.clear), a.pub /\ b.pub)

FHE_sub(a, b) == Ciphertext(WordSub(a.clear, b.clear), a.pub /\ b.pub)

\* Mutant: strict comparison, an amount equal to the holding is refused.
FHE_ge_strict(a, b) ==
    [val |-> ~WordGe(b.clear, a.clear), pub |-> a.pub /\ b.pub]

\* Mutant: the operands of the comparison are swapped.
FHE_ge_swapped(a, b) ==
    [val |-> WordGe(b.clear, a.clear), pub |-> a.pub /\ b.pub]

\* ebool: the clear truth value and whether the handle is constant-derived.
FHE_ge(a, b) == [val |-> WordGe(a.clear, b.clear), pub |-> a.pub /\ b.pub]

\* Mutant: the first candidate is committed whatever the condition.
FHE_select_first(c, a, b) == Ciphertext(a.clear, c.pub /\ a.pub /\ b.pub)

FHE_select(c, a, b) ==
    Ciphertext(IF c.val THEN a.clear ELSE b.clear, c.pub /\ a.pub /\ b.pub)

\* Mutant: the input proof is not checked.
FHE_verifies_unchecked(input) == TRUE

\* FHE.fromExternal: the input proof is verified (the call reverts when it
\* does not verify), then the external handle becomes an euint32.
FHE_verifies(input) == input.valid

FHE_fromExternal(input) == Ciphertext(input.amount, FALSE)

\* Client-side reading of a handle (test helper decryptValue).
decryptValue(h) == IF h = ZeroHandle THEN Word(0) ELSE h.clear

\* ------------------------------------------------------------------ state
VARIABLES
    goldBalances,
    stakedBalances,
    hasClaimed,
    lastActionStatus,
    hasGoldBalance,
    hasStakedBalance,
    hasStatusRecord,
    acl,
    pubAcl,
    goldClaimedCount,
    tx,
    app

ledger ==
    <<goldBalances, stakedBalances, hasClaimed, lastActionStatus,
      hasGoldBalance, hasStakedBalance, hasStatusRecord, acl, pubAcl>>

vars ==
    <<goldBalances, stakedBalances, hasClaimed, lastActionStatus,
      hasGoldBalance, hasStakedBalance, hasStatusRecord, acl, pubAcl,
      goldClaimedCount, tx, app>>

Slots == {"gold", "staked", "status"}

GoldClaimed(player) == [name |-> "GoldClaimed", player |-> player]

\* Mutant: stakeGold emits the withdraw event.
GoldStaked_wrongEvent(player) == [name |-> "GoldWithdrawn", player |-> player]

GoldStaked(player) == [name |-> "GoldStaked", player |-> player]

GoldWithdrawn(player) == [name |-> "GoldWithdrawn", player |-> player]

Receipt(fn, sender, input, reverted, reason, logs) ==
    [fn |-> fn, sender |-> sender, input |-> input,
     reverted |-> reverted, reason |-> reason, logs |-> logs,
     prior |->
         IF sender \in Players
         THEN [gold |-> decryptValue(goldBalances[sender]),
               staked |-> decryptValue(stakedBalances[sender])]
         ELSE [gold |-> Word(0), staked |-> Word(0)]]

NoInput == [valid |-> TRUE, amount |-> Word(0)]

\* ------------------------------------------------------- StakeApp client
\* null of useState<DecryptedBalances | null> and of a handler not running.
Null == [null |-> TRUE]

\* What useReadContract holds for the three getters.  Of the handles the
\* client state keeps whether all three are the zero hash, and a mark
\* telling whether they were fetched after the client's latest confirmed
\* action.
Ciphers(gold, staked, status, fresh) ==
    [zero |-> gold = ZeroHandle /\ staked = ZeroHandle /\ status = ZeroHandle,
     fresh |-> fresh]

\* The latest step of the client and, when it was a handler call, what the
\* handler found: whether useAccount gave an address and useZamaInstance an
\* instance, and the text of the form field.
HandlerCall(step, address, instance, text) ==
    [step |-> step, address |-> address, instance |-> instance,
     text |-> text]

\* A step that is no handler call.
Step(step) == HandlerCall(step, FALSE, FALSE, [kind |-> "empty", value |-> 0])

\* The running handler with the amount it was called with.
Running(handler, amount) == [handler |-> handler, amount |-> amount]

\* useState initial values (lines 89-93), no handler running, the getters
\* of a fresh contract loaded.
AppInit ==
    [pc |-> "idle", run |-> Null, last |-> Step("mount"),
     isProcessing |-> FALSE, isDecrypting |-> FALSE,
     feedback |-> "none", decrypted |-> Null,
     ciphers |-> Ciphers(ZeroHandle, ZeroHandle, ZeroHandle, TRUE),
     decrypting |-> Null]

Init ==
    /\ goldBalances = [p \in Players |-> ZeroHandle]
    /\ stakedBalances = [p \in Players |-> ZeroHandle]
    /\ hasClaimed = [p \in Players |-> FALSE]
    /\ lastActionStatus = [p \in Players |-> ZeroHandle]
    /\ hasGoldBalance = [p \in Players |-> FALSE]
    /\ hasStakedBalance = [p \in Players |-> FALSE]
    /\ hasStatusRecord = [p \in Players |-> FALSE]
    /\ acl = [s \in Slots |-> [p \in Players |-> {}]]
    /\ pubAcl = {}
    /\ goldClaimedCount = [p \in Players |-> 0]
    /\ tx = Receipt("constructor", Contract, NoInput, FALSE, "", <<>>)
    /\ app = AppInit

\* A reverted transaction: every storage write and log is discarded.
Revert(fn, sender, input, reason) ==
    /\ UNCHANGED <<ledger, goldClaimedCount>>
    /\ tx' = Receipt(fn, sender, input, TRUE, reason, <<>>)

\* Mutant: the bucket write is lost.
StoreBucket_lost(storageBucket, player, value) == storageBucket

\* Mutant: the existence flag is not set.
StoreFlag_unset(flags, player) == flags

\* Mutant: the write lands in the slot of every identity.
StoreBucket_everyone(storageBucket, player, value) ==
    [p \in Players |-> value]

\* _storeEncryptedValue: bucket write, flag, allowThis, allow(value, player).
StoreBucket(storageBucket, player, value) ==
    [storageBucket EXCEPT ![player] = value]

StoreFlag(flags, player) == [flags EXCEPT ![player] = TRUE]

\* Mutant: FHE.allow(value, player) is missing.
Granted_thisOnly(player) == {Contract}

\* The principals granted by FHE.allowThis(value) and FHE.allow(value, player).
Granted(player) == {Contract} \cup {player}

\* ACL entries of the handle now held in the player's slot, when that handle
\* is unique to the slot (a constant-derived handle has its entries in pubAcl).
StoreAllow(slotAcl, player, value) ==
    [slotAcl EXCEPT ![player] = IF value.pub THEN {} ELSE Granted(player)]

\* ACL entries of constant-derived handles: grants accumulate on the handle.
StoreAllowPub(pairs, player, value) ==
    IF value.pub
    THEN pairs \cup {<<value.clear, q>> : q \in Granted(player)}
    ELSE pairs

\* Mutant: the require on hasClaimed is missing.
claimInitialGold_noRequire(player) ==
    IF FALSE
    THEN Revert("claimInitialGold", player, NoInput, "Gold already claimed")
    ELSE
        LET grant == FHE_asEuint32(INITIAL_GRANT)
            currentBalance ==
                IF hasGoldBalance[player] THEN goldBalances[player]
                ELSE FHE_asEuint32(0)
            updatedBalance == FHE_add(currentBalance, grant)
        IN  /\ goldBalances' = StoreBucket(goldBalances, player, updatedBalance)
            /\ hasGoldBalance' = StoreFlag(hasGoldBalance, player)
            /\ lastActionStatus' =
                   StoreBucket(lastActionStatus, player, FHE_asEuint32(STATUS_OK))
            /\ hasStatusRecord' = StoreFlag(hasStatusRecord, player)
            /\ acl' = [acl EXCEPT
                          !["gold"] = StoreAllow(@, player, updatedBalance),
                          !["status"] =
                              StoreAllow(@, player, FHE_asEuint32(STATUS_OK))]
            /\ pubAcl' =
                   StoreAllowPub(StoreAllowPub(pubAcl, player, updatedBalance),
                                 player, FHE_asEuint32(STATUS_OK))
            /\ hasClaimed' = [hasClaimed EXCEPT ![player] = TRUE]
            /\ goldClaimedCount' =
                   [goldClaimedCount EXCEPT ![player] = @ + 1]
            /\ UNCHANGED <<stakedBalances, hasStakedBalance>>
            /\ tx' = Receipt("claimInitialGold", player, NoInput, FALSE, "",
                             <<GoldClaimed(player)>>)

\* Mutant: the _storeStatus call is missing.
claimInitialGold_noStatus(player) ==
    IF hasClaimed[player]
    THEN Revert("claimInitialGold", player, NoInput, "Gold already claimed")
    ELSE
        LET grant == FHE_asEuint32(INITIAL_GRANT)
            currentBalance ==
                IF hasGoldBalance[player] THEN goldBalances[player]
                ELSE FHE_asEuint32(0)
            updatedBalance == FHE_add(currentBalance, grant)
        IN  /\ goldBalances' = StoreBucket(goldBalances, player, updatedBalance)
            /\ hasGoldBalance' = StoreFlag(hasGoldBalance, player)
            /\ UNCHANGED <<lastActionStatus, hasStatusRecord>>
            /\ acl' = [acl EXCEPT
                          !["gold"] = StoreAllow(@, player, updatedBalance)]
            /\ pubAcl' = StoreAllowPub(pubAcl, player, updatedBalance)
            /\ hasClaimed' = [hasClaimed EXCEPT ![player] = TRUE]
            /\ goldClaimedCount' =
                   [goldClaimedCount EXCEPT ![player] = @ + 1]
            /\ UNCHANGED <<stakedBalances, hasStakedBalance>>
            /\ tx' = Receipt("claimInitialGold", player, NoInput, FALSE, "",
                             <<GoldClaimed(player)>>)

\* Mutant: the claim also initialises the stake slot with an encrypted 0.
claimInitialGold_initStake(player) ==
    IF hasClaimed[player]
    THEN Revert("claimInitialGold", player, NoInput, "Gold already claimed")
    ELSE
        LET grant == FHE_asEuint32(INITIAL_GRANT)
            currentBalance ==
                IF hasGoldBalance[player] THEN goldBalances[player]
                ELSE FHE_asEuint32(0)
            updatedBalance == FHE_add(currentBalance, grant)
        IN  /\ goldBalances' = StoreBucket(goldBalances, player, updatedBalance)
            /\ hasGoldBalance' = StoreFlag(hasGoldBalance, player)
            /\ lastActionStatus' =
                   StoreBucket(lastActionStatus, player, FHE_asEuint32(STATUS_OK))
            /\ hasStatusRecord' = StoreFlag(hasStatusRecord, player)
            /\ acl' = [acl EXCEPT
                          !["staked"] = StoreAllow(@, player, FHE_asEuint32(0)),
                          !["gold"] = StoreAllow(@, player, updatedBalance),
                          !["status"] =
                              StoreAllow(@, player, FHE_asEuint32(STATUS_OK))]
            /\ pubAcl' =
                   StoreAllowPub(StoreAllowPub(pubAcl, player, updatedBalance),
                                 player, FHE_asEuint32(STATUS_OK))
            /\ hasClaimed' = [hasClaimed EXCEPT ![player] = TRUE]
            /\ goldClaimedCount' =
                   [goldClaimedCount EXCEPT ![player] = @ + 1]
            /\ stakedBalances' =
                   StoreBucket(stakedBalances, player, FHE_asEuint32(0))
            /\ hasStakedBalance' = StoreFlag(hasStakedBalance, player)
            /\ tx' = Receipt("claimInitialGold", player, NoInput, FALSE, "",
                             <<GoldClaimed(player)>>)

claimInitialGold(player) ==
    IF hasClaimed[player]
    THEN Revert("claimInitialGold", player, NoInput, "Gold already claimed")
    ELSE
        LET grant == FHE_asEuint32(INITIAL_GRANT)
            currentBalance ==
                IF hasGoldBalance[player] THEN goldBalances[player]
                ELSE FHE_asEuint32(0)
            updatedBalance == FHE_add(currentBalance, grant)
        IN  /\ goldBalances' = StoreBucket(goldBalances, player, updatedBalance)
            /\ hasGoldBalance' = StoreFlag(hasGoldBalance, player)
            /\ lastActionStatus' =
                   StoreBucket(lastActionStatus, player, FHE_asEuint32(STATUS_OK))
            /\ hasStatusRecord' = StoreFlag(hasStatusRecord, player)
            /\ acl' = [acl EXCEPT
                          !["gold"] = StoreAllow(@, player, updatedBalance),
                          !["status"] =
                              StoreAllow(@, player, FHE_asEuint32(STATUS_OK))]
            /\ pubAcl' =
                   StoreAllowPub(StoreAllowPub(pubAcl, player, updatedBalance),
                                 player, FHE_asEuint32(STATUS_OK))
            /\ hasClaimed' = [hasClaimed EXCEPT ![player] = TRUE]
            /\ goldClaimedCount' =
                   [goldClaimedCount EXCEPT ![player] = @ + 1]
            /\ UNCHANGED <<stakedBalances, hasStakedBalance>>
            /\ tx' = Receipt("claimInitialGold", player, NoInput, FALSE, "",
                             <<GoldClaimed(player)>>)

\* Mutant: an insufficient stake is rejected with a revert.
stakeGold_revertsInsufficient(player, input) ==
    IF \/ ~FHE_verifies(input)
       \/ ~WordGe(decryptValue(goldBalances[player]), input.amount)
    THEN Revert("stakeGold", player, input, "InvalidProof")
    ELSE
        LET encryptedAmount == FHE_fromExternal(input)
            currentBalance ==
                IF hasGoldBalance[player] THEN goldBalances[player]
                ELSE FHE_asEuint32(0)
            currentStake ==
                IF hasStakedBalance[player] THEN stakedBalances[player]
                ELSE FHE_asEuint32(0)
            updatedBalance == FHE_sub(currentBalance, encryptedAmount)
            updatedStake == FHE_add(currentStake, encryptedAmount)
            hasSufficientBalance == FHE_ge(currentBalance, encryptedAmount)
            safeBalance ==
                FHE_select(hasSufficientBalance, updatedBalance, currentBalance)
            safeStake ==
                FHE_select(hasSufficientBalance, updatedStake, currentStake)
            status ==
                FHE_select(hasSufficientBalance, FHE_asEuint32(STATUS_OK),
                           FHE_asEuint32(STATUS_INSUFFICIENT_BALANCE))
        IN  /\ goldBalances' = StoreBucket(goldBalances, player, safeBalance)
            /\ hasGoldBalance' = StoreFlag(hasGoldBalance, player)
            /\ stakedBalances' = StoreBucket(stakedBalances, player, safeStake)
            /\ hasStakedBalance' = StoreFlag(hasStakedBalance, player)
            /\ lastActionStatus' = StoreBucket(lastActionStatus, player, status)
            /\ hasStatusRecord' = StoreFlag(hasStatusRecord, player)
            /\ acl' = [acl EXCEPT
                          !["gold"] = StoreAllow(@, player, safeBalance),
                          !["staked"] = StoreAllow(@, player, safeStake),
                          !["status"] = StoreAllow(@, player, status)]
            /\ pubAcl' =
                   StoreAllowPub(
                       StoreAllowPub(
                           StoreAllowPub(pubAcl, player, safeBalance),
                           player, safeStake),
                       player, status)
            /\ UNCHANGED <<hasClaimed, goldClaimedCount>>
            /\ tx' = Receipt("stakeGold", player, input, FALSE, "",
                             <<GoldStaked(player)>>)

stakeGold(player, input) ==
    IF ~FHE_verifies(input)
    THEN Revert("stakeGold", player, input, "InvalidProof")
    ELSE
        LET encryptedAmount == FHE_fromExternal(input)
            currentBalance ==
                IF hasGoldBalance[player] THEN goldBalances[player]
                ELSE FHE_asEuint32(0)
            currentStake ==
                IF hasStakedBalance[player] THEN stakedBalances[player]
                ELSE FHE_asEuint32(0)
            updatedBalance == FHE_sub(currentBalance, encryptedAmount)
            updatedStake == FHE_add(currentStake, encryptedAmount)
            hasSufficientBalance == FHE_ge(currentBalance, encryptedAmount)
            safeBalance ==
                FHE_select(hasSufficientBalance, updatedBalance, currentBalance)
            safeStake ==
                FHE_select(hasSufficientBalance, updatedStake, currentStake)
            status ==
                FHE_select(hasSufficientBalance, FHE_asEuint32(STATUS_OK),
                           FHE_asEuint32(STATUS_INSUFFICIENT_BALANCE))
        IN  /\ goldBalances' = StoreBucket(goldBalances, player, safeBalance)
            /\ hasGoldBalance' = StoreFlag(hasGoldBalance, player)
            /\ stakedBalances' = StoreBucket(stakedBalances, player, safeStake)
            /\ hasStakedBalance' = StoreFlag(hasStakedBalance, player)
            /\ lastActionStatus' = StoreBucket(lastActionStatus, player, status)
            /\ hasStatusRecord' = StoreFlag(hasStatusRecord, player)
            /\ acl' = [acl EXCEPT
                          !["gold"] = StoreAllow(@, player, safeBalance),
                          !["staked"] = StoreAllow(@, player, safeStake),
                          !["status"] = StoreAllow(@, player, status)]
            /\ pubAcl' =
                   StoreAllowPub(
                       StoreAllowPub(
                           StoreAllowPub(pubAcl, player, safeBalance),
                           player, safeStake),
                       player, status)
            /\ UNCHANGED <<hasClaimed, goldClaimedCount>>
            /\ tx' = Receipt("stakeGold", player, input, FALSE, "",
                             <<GoldStaked(player)>>)

withdrawStakedGold(player, input) ==
    IF ~FHE_verifies(input)
    THEN Revert("withdrawStakedGold", player, input, "InvalidProof")
    ELSE
        LET encryptedAmount == FHE_fromExternal(input)
            currentStake ==
                IF hasStakedBalance[player] THEN stakedBalances[player]
                ELSE FHE_asEuint32(0)
            currentBalance ==
                IF hasGoldBalance[player] THEN goldBalances[player]
                ELSE FHE_asEuint32(0)
            updatedStake == FHE_sub(currentStake, encryptedAmount)
            updatedBalance == FHE_add(currentBalance, encryptedAmount)
            hasStakeAvailable == FHE_ge(currentStake, encryptedAmount)
            safeStake ==
                FHE_select(hasStakeAvailable, updatedStake, currentStake)
            safeBalance ==
                FHE_select(hasStakeAvailable, updatedBalance, currentBalance)
            status ==
                FHE_select(hasStakeAvailable, FHE_asEuint32(STATUS_OK),
                           FHE_asEuint32(STATUS_INSUFFICIENT_STAKE))
        IN  /\ stakedBalances' = StoreBucket(stakedBalances, player, safeStake)
            /\ hasStakedBalance' = StoreFlag(hasStakedBalance, player)
            /\ goldBalances' = StoreBucket(goldBalances, player, safeBalance)
            /\ hasGoldBalance' = StoreFlag(hasGoldBalance, player)
            /\ lastActionStatus' = StoreBucket(lastActionStatus, player, status)
            /\ hasStatusRecord' = StoreFlag(hasStatusRecord, player)
            /\ acl' = [acl EXCEPT
                          !["gold"] = StoreAllow(@, player, safeBalance),
                          !["staked"] = StoreAllow(@, player, safeStake),
                          !["status"] = StoreAllow(@, player, status)]
            /\ pubAcl' =
                   StoreAllowPub(
                       StoreAllowPub(
                           StoreAllowPub(pubAcl, player, safeBalance),
                           player, safeStake),
                       player, status)
            /\ UNCHANGED <<hasClaimed, goldClaimedCount>>
            /\ tx' = Receipt("withdrawStakedGold", player, input, FALSE, "",
                             <<GoldWithdrawn(player)>>)

\* View functions.
getGoldBalance(player) == goldBalances[player]

getStakedBalance(player) == stakedBalances[player]

hasClaimedInitialGold(player) == hasClaimed[player]

getLastActionStatus(player) == lastActionStatus[player]

Next ==
    \/ \E player \in Players : claimInitialGold(player) /\ UNCHANGED app
    \/ \E player \in Players, input \in Inputs :
           stakeGold(player, input) /\ UNCHANGED app
    \/ \E player \in Players, input \in Inputs :
           withdrawStakedGold(player, input) /\ UNCHANGED app

Spec == Init /\ [][Next]_vars

\* The Sepolia scenario of test/GhostStakeSepolia.ts: a single signer, who
\* also stakes the amount 10 used by the test.
SepoliaPlayer == CHOOSE p \in Players : \A q \in Players : p <= q

SepoliaInputs == Inputs \cup {[valid |-> TRUE, amount |-> Word(10)]}

NextSepolia ==
    \/ claimInitialGold(SepoliaPlayer) /\ UNCHANGED app
    \/ \E input \in SepoliaInputs :
           stakeGold(SepoliaPlayer, input) /\ UNCHANGED app
    \/ \E input \in SepoliaInputs :
           withdrawStakedGold(SepoliaPlayer, input) /\ UNCHANGED app

SpecSepolia == Init /\ [][NextSepolia]_vars

\* The value and the existence flag of a player's slot.
SlotValue(s, p) ==
    CASE s = "gold" -> goldBalances[p]
      [] s = "staked" -> stakedBalances[p]
      [] s = "status" -> lastActionStatus[p]

SlotFlag(s, p) ==
    CASE s = "gold" -> hasGoldBalance[p]
      [] s = "staked" -> hasStakedBalance[p]
      [] s = "status" -> hasStatusRecord[p]

\* The principals the ACL allows on the handle held in a player's slot.
AclOf(s, p) ==
    LET v == SlotValue(s, p)
    IN  IF v = ZeroHandle THEN {}
        ELSE IF v.pub THEN {q \in Principals : <<v.clear, q>> \in pubAcl}
        ELSE acl[s][p]

\* ------------------------------------------------- readings used by claims
\* Decrypted, absent-as-zero readings of a player's three slots.
Bal(p) == decryptValue(getGoldBalance(p))

Stk(p) == decryptValue(getStakedBalance(p))

Sts(p) == decryptValue(getLastActionStatus(p))

\* Exact (non-modular) sum of two uint32 words, as a 33-bit limb pair.
ExactSum(a, b) ==
    LET lo == a.lo + b.lo
    IN  [hi |-> a.hi + b.hi + (lo \div LIMB), lo |-> lo % LIMB]

Accepted(fn) == tx.fn = fn /\ ~tx.reverted

MovesStake == {"stakeGold", "withdrawStakedGold"}

\* C1: in every reachable state and for every identity, decrypted balance
\* plus stake (without wrap-around) is 0 while the identity has not claimed
\* and exactly INITIAL_GRANT once it has.
C1_Conservation ==
    \A p \in Players :
        ExactSum(Bal(p), Stk(p)) =
            Word(IF hasClaimed[p] THEN INITIAL_GRANT ELSE 0)

\* C1 witness: a claimed identity holding both a positive balance and a
\* positive stake right after an accepted withdraw.
C1_Witness ==
    /\ Accepted("withdrawStakedGold")
    /\ hasClaimed[tx.sender]
    /\ Bal(tx.sender) # Word(0)
    /\ Stk(tx.sender) # Word(0)

\* C2: every accepted stakeGold or withdrawStakedGold step leaves the
\* caller's exact balance + stake as it was before the step, for every
\* amount, sufficient or not.
C2_StepConserves ==
    [][\A p \in Players :
          (tx'.fn \in MovesStake /\ ~tx'.reverted /\ tx'.sender = p)
              => ExactSum(Bal(p), Stk(p))' = ExactSum(Bal(p), Stk(p))]_vars

\* C2 witness: an accepted stake of an amount at the top of the uint32 range
\* by an identity that holds a positive balance.
C2_Witness ==
    /\ Accepted("stakeGold")
    /\ tx.input.amount = WordMax
    /\ Bal(tx.sender) # Word(0)

\* C3: a claimInitialGold call by an identity that has already claimed
\* reverts with "Gold already claimed", emits nothing and changes no
\* balance, stake, status, flag or access grant of any identity.
C3_SecondClaimAborts ==
    [][\A p \in Players :
          (tx'.fn = "claimInitialGold" /\ tx'.sender = p /\ hasClaimed[p])
              => /\ tx'.reverted
                 /\ tx'.reason = "Gold already claimed"
                 /\ tx'.logs = <<>>
                 /\ UNCHANGED ledger]_vars

\* C3 witness: a reverted claim by an identity that has claimed and has
\* since moved part of its balance to stake.
C3_Witness ==
    /\ tx.fn = "claimInitialGold"
    /\ tx.reverted
    /\ hasClaimed[tx.sender]
    /\ Stk(tx.sender) # Word(0)

\* C4: an accepted claimInitialGold by an identity that had not claimed,
\* whatever it called before, leaves it with balance INITIAL_GRANT, stake 0,
\* status STATUS_OK and the claimed flag set.
C4_ClaimResult ==
    [][\A p \in Players :
          (tx'.fn = "claimInitialGold" /\ tx'.sender = p /\ ~hasClaimed[p])
              => /\ ~tx'.reverted
                 /\ Bal(p)' = Word(INITIAL_GRANT)
                 /\ Stk(p)' = Word(0)
                 /\ hasStatusRecord'[p]
                 /\ Sts(p)' = Word(STATUS_OK)
                 /\ hasClaimed'[p]]_vars

\* C4 witness: an accepted claim by an identity whose earlier stake or
\* withdraw attempts had already created its stake slot.
C4_Witness ==
    /\ Accepted("claimInitialGold")
    /\ hasStakedBalance[tx.sender]
    /\ Bal(tx.sender) = Word(INITIAL_GRANT)

\* C5: stakeGold with a valid proof and amount <= balance (equality
\* included) commits balance - amount, stake + amount and status STATUS_OK.
C5_StakeSufficient ==
    [][\A p \in Players :
          (/\ tx'.fn = "stakeGold" /\ tx'.sender = p /\ tx'.input.valid
           /\ WordGe(Bal(p), tx'.input.amount))
              => /\ ~tx'.reverted
                 /\ ExactSum(Bal(p)', tx'.input.amount) = Bal(p)
                 /\ Stk(p)' = ExactSum(Stk(p), tx'.input.amount)
                 /\ hasStatusRecord'[p]
                 /\ Sts(p)' = Word(STATUS_OK)]_vars

\* C5 witness: an accepted stake of the whole positive balance.
C5_Witness ==
    /\ Accepted("stakeGold")
    /\ tx.input.amount = Stk(tx.sender)
    /\ tx.input.amount # Word(0)
    /\ Bal(tx.sender) = Word(0)
    /\ Sts(tx.sender) = Word(STATUS_OK)

\* C6: stakeGold with a valid proof and amount > balance is accepted,
\* leaves decrypted balance and stake as before and sets status
\* STATUS_INSUFFICIENT_BALANCE.
C6_StakeInsufficient ==
    [][\A p \in Players :
          (/\ tx'.fn = "stakeGold" /\ tx'.sender = p /\ tx'.input.valid
           /\ ~WordGe(Bal(p), tx'.input.amount))
              => /\ ~tx'.reverted
                 /\ Bal(p)' = Bal(p)
                 /\ Stk(p)' = Stk(p)
                 /\ hasStatusRecord'[p]
                 /\ Sts(p)' = Word(STATUS_INSUFFICIENT_BALANCE)]_vars

\* C6 witness: an accepted stake of more than the positive balance held.
C6_Witness ==
    /\ Accepted("stakeGold")
    /\ Sts(tx.sender) = Word(STATUS_INSUFFICIENT_BALANCE)
    /\ Bal(tx.sender) # Word(0)
    /\ ~WordGe(Bal(tx.sender), tx.input.amount)

\* C7: withdrawStakedGold with a valid proof and amount <= stake (equality
\* included) commits stake - amount, balance + amount and status STATUS_OK.
C7_WithdrawSufficient ==
    [][\A p \in Players :
          (/\ tx'.fn = "withdrawStakedGold" /\ tx'.sender = p
           /\ tx'.input.valid
           /\ WordGe(Stk(p), tx'.input.amount))
              => /\ ~tx'.reverted
                 /\ ExactSum(Stk(p)', tx'.input.amount) = Stk(p)
                 /\ Bal(p)' = ExactSum(Bal(p), tx'.input.amount)
                 /\ hasStatusRecord'[p]
                 /\ Sts(p)' = Word(STATUS_OK)]_vars

\* C7 witness: an accepted withdraw of the whole positive stake.
C7_Witness ==
    /\ Accepted("withdrawStakedGold")
    /\ tx.input.amount # Word(0)
    /\ Stk(tx.sender) = Word(0)
    /\ WordGe(Bal(tx.sender), tx.input.amount)
    /\ Sts(tx.sender) = Word(STATUS_OK)

\* C8: withdrawStakedGold with a valid proof and amount > stake is
\* accepted, leaves decrypted balance and stake as before and sets status
\* STATUS_INSUFFICIENT_STAKE.
C8_WithdrawInsufficient ==
    [][\A p \in Players :
          (/\ tx'.fn = "withdrawStakedGold" /\ tx'.sender = p
           /\ tx'.input.valid
           /\ ~WordGe(Stk(p), tx'.input.amount))
              => /\ ~tx'.reverted
                 /\ Bal(p)' = Bal(p)
                 /\ Stk(p)' = Stk(p)
                 /\ hasStatusRecord'[p]
                 /\ Sts(p)' = Word(STATUS_INSUFFICIENT_STAKE)]_vars

\* C8 witness: an accepted withdraw of more than the positive stake held.
C8_Witness ==
    /\ Accepted("withdrawStakedGold")
    /\ Sts(tx.sender) = Word(STATUS_INSUFFICIENT_STAKE)
    /\ Stk(tx.sender) # Word(0)
    /\ ~WordGe(Stk(tx.sender), tx.input.amount)

\* C9: a stakeGold or withdrawStakedGold call whose proof does not verify
\* reverts with no event and no change to any balance, stake, status, flag
\* or access grant; a call whose proof verifies never reverts, however
\* large its amount.
C9_InvalidProofAborts ==
    [][tx'.fn \in MovesStake
          => /\ ~tx'.input.valid
                 => /\ tx'.reverted
                    /\ tx'.reason = "InvalidProof"
                    /\ tx'.logs = <<>>
                    /\ UNCHANGED ledger
             /\ tx'.input.valid => ~tx'.reverted]_vars

\* C9 witness: a stake or withdraw reverted on its proof, by an identity
\* that holds a stake.
C9_Witness ==
    /\ tx.fn \in MovesStake
    /\ tx.reverted
    /\ ~tx.input.valid
    /\ Stk(tx.sender) # Word(0)

\* C10: every accepted stakeGold emits exactly one GoldStaked(caller) and
\* every accepted withdrawStakedGold exactly one GoldWithdrawn(caller), the
\* same event whether the amount was sufficient or not, carrying only the
\* caller identity.
C10_OneEventPerCall ==
    [][/\ (tx'.fn = "stakeGold" /\ ~tx'.reverted)
              => tx'.logs = <<[name |-> "GoldStaked", player |-> tx'.sender]>>
       /\ (tx'.fn = "withdrawStakedGold" /\ ~tx'.reverted)
              => tx'.logs =
                     <<[name |-> "GoldWithdrawn", player |-> tx'.sender]>>]_vars

\* C10 witness: an accepted stake or withdraw on the insufficient branch
\* with its single event in the receipt.
C10_Witness ==
    /\ tx.fn \in MovesStake
    /\ ~tx.reverted
    /\ Sts(tx.sender) # Word(STATUS_OK)
    /\ Len(tx.logs) = 1

\* C11: every value stored in a balance, stake or status slot of an identity
\* has its existence flag set and carries a decryption grant for both the
\* ledger contract and that identity.
C11_StoredValueGranted ==
    \A p \in Players, s \in Slots :
        SlotValue(s, p) # ZeroHandle
            => SlotFlag(s, p) /\ {Contract, p} \subseteq AclOf(s, p)

\* C11 witness: after an accepted stake by a claimed identity all three of
\* its slots hold a value.
C11_Witness ==
    /\ Accepted("stakeGold")
    /\ hasClaimed[tx.sender]
    /\ \A s \in Slots : SlotValue(s, tx.sender) # ZeroHandle

\* C12 (as claimed): the only principals holding a decryption grant on a
\* value stored in a slot of an identity are the ledger contract and that
\* identity.
C12_OnlyOwnerGranted ==
    \A p \in Players, s \in Slots :
        SlotValue(s, p) # ZeroHandle => AclOf(s, p) \subseteq {Contract, p}

\* C13: after every accepted mutating call the caller's status is the
\* outcome of that call alone: 0 after a claim, 1 after a stake exactly when
\* amount > balance and 0 otherwise, 2 after a withdraw exactly when
\* amount > stake and 0 otherwise.
C13_StatusOfLastCall ==
    [][\A p \in Players :
          (tx'.sender = p /\ ~tx'.reverted)
              => /\ hasStatusRecord'[p]
                 /\ tx'.fn = "claimInitialGold" => Sts(p)' = Word(0)
                 /\ tx'.fn = "stakeGold"
                        => Sts(p)' = IF WordGe(Bal(p), tx'.input.amount)
                                     THEN Word(0) ELSE Word(1)
                 /\ tx'.fn = "withdrawStakedGold"
                        => Sts(p)' = IF WordGe(Stk(p), tx'.input.amount)
                                     THEN Word(0) ELSE Word(2)]_vars

\* C13 witness: an accepted withdraw of the whole stake, status 0, by an
\* identity that holds its full grant again.
C13_Witness ==
    /\ Accepted("withdrawStakedGold")
    /\ tx.input.amount # Word(0)
    /\ Sts(tx.sender) = Word(0)
    /\ Bal(tx.sender) = Word(INITIAL_GRANT)

\* C14: the claimed flag of an identity never goes from true to false, and
\* goes from false to true only in an accepted claimInitialGold step of that
\* identity, the step that adds INITIAL_GRANT to its balance.
C14_ClaimedOnce ==
    [][\A p \in Players :
          /\ hasClaimed[p] => hasClaimed'[p]
          /\ (~hasClaimed[p] /\ hasClaimed'[p])
                 => /\ tx'.fn = "claimInitialGold"
                    /\ tx'.sender = p
                    /\ ~tx'.reverted
                    /\ Bal(p)' = ExactSum(Bal(p), Word(INITIAL_GRANT))]_vars

\* C14 witness: an accepted first claim of an identity with no stake slot.
C14_Witness ==
    /\ Accepted("claimInitialGold")
    /\ hasClaimed[tx.sender]
    /\ ~hasStakedBalance[tx.sender]

\* C15: GoldClaimed(p) is logged at most once per player, and only in a step
\* where claimInitialGold by p is accepted and adds INITIAL_GRANT to p's
\* balance.
C15_GoldClaimedOnce ==
    /\ [](\A p \in Players : goldClaimedCount[p] <= 1)
    /\ [][\A p \in Players :
             (\/ goldClaimedCount'[p] # goldClaimedCount[p]
              \/ \E i \in DOMAIN tx'.logs :
                     tx'.logs[i] = [name |-> "GoldClaimed", player |-> p])
                 => /\ tx'.fn = "claimInitialGold"
                    /\ tx'.sender = p
                    /\ ~tx'.reverted
                    /\ goldClaimedCount'[p] = goldClaimedCount[p] + 1
                    /\ Bal(p)' = ExactSum(Bal(p), Word(INITIAL_GRANT))]_vars

\* C15 witness: every player has its GoldClaimed entry and a further claim
\* has just been reverted.
C15_Witness ==
    /\ tx.fn = "claimInitialGold"
    /\ tx.reverted
    /\ \A p \in Players : goldClaimedCount[p] = 1

\* C16: each getter returns the zero handle exactly when the existence flag
\* of the slot is unset; with the flag set it returns a non-zero handle even
\* when the stored value decrypts to 0.
C16_SentinelIffUnset ==
    \A p \in Players :
        /\ (getGoldBalance(p) = ZeroHandle) <=> ~hasGoldBalance[p]
        /\ (getStakedBalance(p) = ZeroHandle) <=> ~hasStakedBalance[p]
        /\ (getLastActionStatus(p) = ZeroHandle) <=> ~hasStatusRecord[p]

\* C16 witness: a stored zero next to a never-written slot: one identity
\* holds a written stake slot that decrypts to 0, another has no stake slot.
C16_Witness ==
    /\ \E p \in Players :
           /\ hasStakedBalance[p]
           /\ Stk(p) = Word(0)
           /\ getStakedBalance(p) # ZeroHandle
    /\ \E q \in Players : getStakedBalance(q) = ZeroHandle

C18_StatusZeroUntilFirstCall ==
    /\ \A p \in Players : getLastActionStatus(p) = ZeroHandle
    /\ [][\A p \in Players :
             (getLastActionStatus(p)' = ZeroHandle)
                 <=> /\ getLastActionStatus(p) = ZeroHandle
                     /\ ~(tx'.sender = p /\ ~tx'.reverted)]_vars

\* C18 witness: an identity whose only calls were reverted still reads the
\* zero handle while another identity has a status.
C18_Witness ==
    /\ tx.reverted
    /\ getLastActionStatus(tx.sender) = ZeroHandle
    /\ \E q \in Players : getLastActionStatus(q) # ZeroHandle

C20_LazySlots ==
    /\ \A p \in Players, s \in Slots : ~SlotFlag(s, p)
    /\ [][\A p \in Players :
             /\ \A s \in Slots :
                    /\ SlotFlag(s, p) => SlotFlag(s, p)'
                    /\ (~SlotFlag(s, p) /\ SlotFlag(s, p)')
                           => (tx'.sender = p /\ ~tx'.reverted)
             /\ (tx'.sender = p /\ ~tx'.reverted)
                    => /\ SlotFlag("gold", p)' /\ SlotFlag("status", p)'
                       /\ tx'.fn \in MovesStake => SlotFlag("staked", p)']_vars

\* C20 witness: after an accepted stake the caller has all three slots
\* while another identity still has none.
C20_Witness ==
    /\ Accepted("stakeGold")
    /\ \A s \in Slots : SlotFlag(s, tx.sender)
    /\ \E q \in Players : \A s \in Slots : ~SlotFlag(s, q)

\* --------------------------------------------- readings used by C21 .. C30
\* What anyone can observe of an identity without decrypting: the claimed
\* flag and the three existence flags.
PublicFlags(p) ==
    <<hasClaimed[p], hasGoldBalance[p], hasStakedBalance[p],
      hasStatusRecord[p]>>

\* The value the ledger resolves for a slot at the start of an operation:
\* an encrypted 0 while the existence flag is unset, else the stored value.
ResolvedBalance(p) ==
    IF hasGoldBalance[p] THEN goldBalances[p] ELSE FHE_asEuint32(0)

ResolvedStake(p) ==
    IF hasStakedBalance[p] THEN stakedBalances[p] ELSE FHE_asEuint32(0)

ValidInput(a) == [valid |-> TRUE, amount |-> a]

\* C21 (as claimed): a mutating call by one identity leaves the balance,
\* stake, status, existence flags, claimed flag and access grants of every
\* other identity unchanged.
C21_OnlyCallerChanges ==
    [][\A p \in Players :
          tx'.sender # p
              => /\ goldBalances'[p] = goldBalances[p]
                 /\ stakedBalances'[p] = stakedBalances[p]
                 /\ lastActionStatus'[p] = lastActionStatus[p]
                 /\ PublicFlags(p)' = PublicFlags(p)
                 /\ \A s \in Slots : AclOf(s, p)' = AclOf(s, p)]_vars

\* C22: the public observables after a call are a function of the public
\* observables before it and of the call's caller, kind and proof validity
\* alone.  Two executions that agree on these and differ only in the
\* encrypted amounts therefore agree, step by step, on accept or abort, on
\* the emitted events, on the claimed flags and on the existence flags.
C22_PublicIndependentOfAmounts ==
    [][LET c == tx'.sender
           accepted ==
               IF tx'.fn = "claimInitialGold" THEN ~hasClaimed[c]
               ELSE tx'.input.valid
           event ==
               CASE tx'.fn = "claimInitialGold" -> "GoldClaimed"
                 [] tx'.fn = "stakeGold" -> "GoldStaked"
                 [] tx'.fn = "withdrawStakedGold" -> "GoldWithdrawn"
       IN  /\ tx'.reverted = ~accepted
           /\ tx'.logs =
                  IF accepted THEN <<[name |-> event, player |-> c]>>
                  ELSE <<>>
           /\ \A p \in Players :
                  PublicFlags(p)' =
                      IF p # c \/ ~accepted THEN PublicFlags(p)
                      ELSE IF tx'.fn = "claimInitialGold"
                      THEN <<TRUE, TRUE, hasStakedBalance[p], TRUE>>
                      ELSE <<hasClaimed[p], TRUE, TRUE, TRUE>>]_vars

\* C22 witness: an accepted stake larger than the balance of an identity
\* that never claimed: the call is accepted and logged like a sufficient
\* one.
C22_Witness ==
    /\ Accepted("stakeGold")
    /\ ~hasClaimed[tx.sender]
    /\ tx.input.amount # Word(0)
    /\ tx.logs # <<>>
    /\ PublicFlags(tx.sender) = <<FALSE, TRUE, TRUE, TRUE>>

\* C23: every value held in a balance or stake slot lies in 0 ..
\* INITIAL_GRANT, and a candidate that wrapped around (balance - amount or
\* stake - amount below 0, stake + amount or balance + amount above 2^32-1)
\* is never the one committed: the slots keep their previous values.
C23_NoWrappedValueStored ==
    /\ [](\A p \in Players :
             /\ WordGe(Word(INITIAL_GRANT), Bal(p))
             /\ WordGe(Word(INITIAL_GRANT), Stk(p)))
    /\ [][\A p \in Players :
             (tx'.fn \in MovesStake /\ tx'.sender = p /\ ~tx'.reverted)
                 => LET a == tx'.input.amount
                        from == IF tx'.fn = "stakeGold" THEN Bal(p) ELSE Stk(p)
                        to == IF tx'.fn = "stakeGold" THEN Stk(p) ELSE Bal(p)
                        wraps ==
                            \/ ~WordGe(from, a)
                            \/ ExactSum(to, a).hi >= LIMB
                    IN  wraps => Bal(p)' = Bal(p) /\ Stk(p)' = Stk(p)]_vars

\* C23 witness: an accepted stake of 2^32 - stake by an identity with a
\* positive stake: stake + amount wraps around to 0.
C23_Witness ==
    /\ Accepted("stakeGold")
    /\ Stk(tx.sender) # Word(0)
    /\ tx.input.amount = WordSub(Word(0), Stk(tx.sender))

\* C24: the ledger is never stuck.  In every reachable state, those reached
\* by aborted calls included, each identity can make an accepted stakeGold
\* and an accepted withdrawStakedGold with a valid proof (shown for the
\* amount 2^32-1, which no holding covers) and, while it has not claimed,
\* an accepted claimInitialGold; and every stakeGold or withdrawStakedGold
\* carrying a valid proof, whatever its amount, and every claimInitialGold
\* of an identity that has not claimed, is accepted.
C24_AlwaysLive ==
    /\ [](\A p \in Players :
             /\ ENABLED (stakeGold(p, ValidInput(WordMax))
                         /\ ~tx'.reverted)
             /\ ENABLED (withdrawStakedGold(p, ValidInput(WordMax))
                         /\ ~tx'.reverted)
             /\ ~hasClaimed[p]
                    => ENABLED (claimInitialGold(p) /\ ~tx'.reverted))
    /\ [][(\/ tx'.fn \in MovesStake /\ tx'.input.valid
           \/ tx'.fn = "claimInitialGold" /\ ~hasClaimed[tx'.sender])
              => ~tx'.reverted]_vars

\* C24 witness: a second claim has just been reverted while another
\* identity has not claimed yet.
C24_Witness ==
    /\ tx.reverted
    /\ tx.reason = "Gold already claimed"
    /\ \E q \in Players : ~hasClaimed[q]

\* C26: after any accepted stakeGold or withdrawStakedGold all three
\* existence flags of the caller are true, sufficient or not, claimed or
\* not.
C26_AllFlagsAfterMove ==
    (tx.fn \in MovesStake /\ ~tx.reverted)
        => /\ hasGoldBalance[tx.sender]
           /\ hasStakedBalance[tx.sender]
           /\ hasStatusRecord[tx.sender]

\* C26 witness: an accepted, insufficient withdraw by an identity that
\* never claimed.
C26_Witness ==
    /\ Accepted("withdrawStakedGold")
    /\ ~hasClaimed[tx.sender]
    /\ Sts(tx.sender) = Word(STATUS_INSUFFICIENT_STAKE)

\* C27: claimInitialGold leaves the caller's stake slot, its flag and its
\* grants as they were, and a stake slot is written only by an accepted
\* stakeGold or withdrawStakedGold of its owner: an identity whose only
\* accepted call is the claim still reads the zero handle.
C27_ClaimLeavesStakeSlot ==
    /\ \A p \in Players : getStakedBalance(p) = ZeroHandle
    /\ [][\A p \in Players :
             /\ (tx'.fn = "claimInitialGold" /\ tx'.sender = p)
                    => /\ stakedBalances'[p] = stakedBalances[p]
                       /\ hasStakedBalance'[p] = hasStakedBalance[p]
                       /\ acl'["staked"][p] = acl["staked"][p]
             /\ (\/ stakedBalances'[p] # stakedBalances[p]
                 \/ hasStakedBalance'[p] # hasStakedBalance[p])
                    => /\ tx'.fn \in MovesStake
                       /\ tx'.sender = p
                       /\ ~tx'.reverted]_vars

\* C27 witness: right after its accepted claim an identity holds the grant
\* and its stake getter returns the zero handle.
C27_Witness ==
    /\ Accepted("claimInitialGold")
    /\ Bal(tx.sender) = Word(INITIAL_GRANT)
    /\ getStakedBalance(tx.sender) = ZeroHandle

\* C28: for every identity the client-side reading of the balance and of
\* the stake (zero handle read as 0, else the decrypted value) equals the
\* value the ledger resolves at the start of its next operation (flag unset
\* read as an encrypted 0, else the stored value).
C28_ClientReadsWhatLedgerResolves ==
    \A p \in Players :
        /\ decryptValue(getGoldBalance(p)) = ResolvedBalance(p).clear
        /\ decryptValue(getStakedBalance(p)) = ResolvedStake(p).clear

\* C28 witness: an identity with a written, non-zero balance and a
\* never-written stake slot.
C28_Witness ==
    \E p \in Players :
        /\ hasGoldBalance[p]
        /\ Bal(p) # Word(0)
        /\ ~hasStakedBalance[p]
        /\ ResolvedStake(p) = FHE_asEuint32(0)

\* C29: stakeGold or withdrawStakedGold with amount 0 and a valid proof is
\* accepted, yields status 0 and leaves decrypted balance and stake as they
\* were, for every identity, having claimed or not.
C29_ZeroAmount ==
    [][\A p \in Players :
          (/\ tx'.fn \in MovesStake /\ tx'.sender = p
           /\ tx'.input = ValidInput(Word(0)))
              => /\ ~tx'.reverted
                 /\ hasStatusRecord'[p]
                 /\ Sts(p)' = Word(0)
                 /\ Bal(p)' = Bal(p)
                 /\ Stk(p)' = Stk(p)]_vars

\* C29 witness: an accepted stake of 0 by an identity that never claimed,
\* whose slots now exist.
C29_Witness ==
    /\ Accepted("stakeGold")
    /\ tx.input.amount = Word(0)
    /\ ~hasClaimed[tx.sender]
    /\ hasStatusRecord[tx.sender]
    /\ Sts(tx.sender) = Word(0)

\* C30: a stakeGold(a) with a <= balance followed immediately by a
\* withdrawStakedGold(a) of the same identity restores the decrypted
\* balance and stake the identity had before the stake, with status 0
\* after each of the two calls.
C30_StakeWithdrawRoundTrip ==
    [][\A p \in Players :
          (/\ tx.fn = "stakeGold" /\ tx.sender = p /\ tx.input.valid
           /\ ~tx.reverted
           /\ WordGe(tx.prior.gold, tx.input.amount)
           /\ tx'.fn = "withdrawStakedGold" /\ tx'.sender = p
           /\ tx'.input = tx.input)
              => /\ Sts(p) = Word(0)
                 /\ ~tx'.reverted
                 /\ Bal(p)' = tx.prior.gold
                 /\ Stk(p)' = tx.prior.staked
                 /\ Sts(p)' = Word(0)]_vars

\* C30 witness: a withdraw of a positive amount accepted right after which
\* the identity holds what it held before: the receipt's prior stake
\* exceeds the stake by the amount.
C30_Witness ==
    /\ Accepted("withdrawStakedGold")
    /\ tx.input.amount # Word(0)
    /\ Sts(tx.sender) = Word(0)
    /\ tx.prior.staked = ExactSum(Stk(tx.sender), tx.input.amount)
    /\ Stk(tx.sender) # Word(0)

\* C31: in every reachable state and for every identity a stake slot
\* implies a balance slot, a balance slot implies a status slot, and the
\* claimed flag implies a balance slot.
C31_FlagOrder ==
    \A p \in Players :
        /\ hasStakedBalance[p] => hasGoldBalance[p]
        /\ hasGoldBalance[p] => hasStatusRecord[p]
        /\ hasClaimed[p] => hasGoldBalance[p]

\* C31 witness: one identity has only claimed (balance and status slots, no
\* stake slot) while another holds all three slots without having claimed.
C31_Witness ==
    \E p, q \in Players :
        /\ hasClaimed[p] /\ hasGoldBalance[p] /\ hasStatusRecord[p]
        /\ ~hasStakedBalance[p]
        /\ ~hasClaimed[q] /\ hasStakedBalance[q] /\ hasGoldBalance[q]
        /\ hasStatusRecord[q]

\* What C32 compares for an identity: decrypted balance, stake and status,
\* the existence flags and the claimed flag.
ViewOf(p) == <<Bal(p), Stk(p), Sts(p), PublicFlags(p)>>

\* C32: calls of different identities commute.  Every call leaves the view
\* (decrypted balance, stake, status, existence flags, claimed flag) of
\* every identity other than its caller as it was, and the caller's view
\* after the call is determined by the caller's own view before it and by
\* the call alone; so in every interleaving of a sequence of calls by A
\* with a sequence of calls by B each of the two sees its own sequence
\* applied to its own view, and all interleavings end in the same views.
C32_CallsCommute ==
    [][\A c \in Players :
          tx'.sender = c
              => LET a == tx'.input.amount
                     accepted ==
                         IF tx'.fn = "claimInitialGold" THEN ~hasClaimed[c]
                         ELSE tx'.input.valid
                     from == IF tx'.fn = "stakeGold" THEN Bal(c) ELSE Stk(c)
                     to == IF tx'.fn = "stakeGold" THEN Stk(c) ELSE Bal(c)
                     sufficient == WordGe(from, a)
                     newFrom == IF sufficient THEN WordSub(from, a) ELSE from
                     newTo == IF sufficient THEN WordAdd(to, a) ELSE to
                 IN  /\ \A p \in Players :
                            p # c => ViewOf(p)' = ViewOf(p)
                     /\ ViewOf(c)' =
                            IF ~accepted THEN ViewOf(c)
                            ELSE IF tx'.fn = "claimInitialGold"
                            THEN <<WordAdd(Bal(c), Word(INITIAL_GRANT)),
                                   Stk(c), Word(STATUS_OK),
                                   <<TRUE, TRUE, hasStakedBalance[c], TRUE>> >>
                            ELSE IF tx'.fn = "stakeGold"
                            THEN <<newFrom, newTo,
                                   Word(IF sufficient THEN STATUS_OK
                                        ELSE STATUS_INSUFFICIENT_BALANCE),
                                   <<hasClaimed[c], TRUE, TRUE, TRUE>> >>
                            ELSE <<newTo, newFrom,
                                   Word(IF sufficient THEN STATUS_OK
                                        ELSE STATUS_INSUFFICIENT_STAKE),
                                   <<hasClaimed[c], TRUE, TRUE, TRUE>> >>]_vars

\* C32 witness: an accepted, sufficient stake of a positive amount by one
\* identity while another identity holds a stake and a balance of its own
\* and its last call was an insufficient one.
C32_Witness ==
    /\ Accepted("stakeGold")
    /\ tx.input.amount # Word(0)
    /\ Sts(tx.sender) = Word(STATUS_OK)
    /\ \E q \in Players \ {tx.sender} :
           /\ Stk(q) # Word(0)
           /\ Bal(q) # Word(0)
           /\ Sts(q) # Word(STATUS_OK)

\* ------------------------------------------------------- StakeApp client
\* The account useAccount returns while a wallet is connected.
Account == SepoliaPlayer

\* What can stand in a form field (input type=number, at most 10
\* characters): nothing, text that is no number, or a number.
FormNumbers == {0 - 1, 0} \cup {k * AmountUnit : k \in 1..MaxAmountUnits}

FormTexts ==
    {[kind |-> "empty", value |-> 0], [kind |-> "garbage", value |-> 0]}
        \cup [kind : {"number"}, value : FormNumbers]

\* Number(formValues.stake): the empty string is 0, text that is no number
\* is NaN.
Number(text) ==
    CASE text.kind = "empty" -> [nan |-> FALSE, value |-> 0]
      [] text.kind = "garbage" -> [nan |-> TRUE, value |-> 0]
      [] text.kind = "number" -> [nan |-> FALSE, value |-> text.value]

\* Mutant: the amount is not validated.
ValidAction_noAmountCheck(call) == call.address /\ call.instance

\* The three checks at the head of processEncryptedAction.  Every form
\* number is below Number.MAX_SAFE_INTEGER (ten characters at most).
ValidAction(call) ==
    /\ call.address
    /\ call.instance
    /\ ~Number(call.text).nan
    /\ Number(call.text).value > 0

\* Mutant: the finally block does not reset isProcessing.
Finally_keepsProcessing(a) == [a EXCEPT !.pc = "idle", !.run = Null]

\* finally { setIsProcessing(false) }, the handler returns.
Finally(a) == [a EXCEPT !.isProcessing = FALSE, !.pc = "idle", !.run = Null]

\* catch (error) { setFeedback({ type: 'error', ... }) } finally { ... }
Caught(a) == Finally([a EXCEPT !.feedback = "error"])

\* tx.wait() returned: success feedback, setDecrypted(null).  The ledger has
\* changed, so what useReadContract holds, and what a running
\* decryptBalances took from it, is from before this action.
Confirmed(a) ==
    [a EXCEPT !.feedback = "success",
              !.decrypted = Null,
              !.pc = "refresh",
              !.ciphers.fresh = FALSE,
              !.decrypting = IF @ = Null THEN Null
                             ELSE [@ EXCEPT !.fresh = FALSE]]

\* DecryptedBalances of the handles a decryptBalances run took: all 0 when
\* the handles are zero hashes, else their decrypted values, which are as
\* recent as the handles.
Parsed(c) == [allZero |-> c.zero, fresh |-> c.fresh]

ClientLeavesLedger == UNCHANGED <<ledger, goldClaimedCount, tx>>

\* handleClaim up to its first await.  The buttons are disabled while
\* isProcessing.
handleClaim(address) ==
    /\ app.pc = "idle"
    /\ ~app.isProcessing
    /\ LET a == [app EXCEPT
                    !.last = HandlerCall("handleClaim", address, FALSE,
                                         [kind |-> "empty", value |-> 0])]
       IN  app' = IF ~address THEN [a EXCEPT !.feedback = "error"]
                  ELSE [a EXCEPT !.feedback = "none",
                                 !.isProcessing = TRUE,
                                 !.run = Running("handleClaim", 0),
                                 !.pc = "signer"]
    /\ ClientLeavesLedger

\* handleStake / handleWithdraw up to the first await of
\* processEncryptedAction; a failed check throws into catch and finally.
StartEncryptedAction(handler, address, instance, text) ==
    /\ app.pc = "idle"
    /\ ~app.isProcessing
    /\ LET a == [app EXCEPT
                    !.last = HandlerCall(handler, address, instance, text),
                    !.feedback = "info",
                    !.isProcessing = TRUE]
       IN  app' = IF ValidAction(a.last)
                  THEN [a EXCEPT !.run = Running(handler, Number(text).value),
                                 !.pc = "signer"]
                  ELSE Caught(a)
    /\ ClientLeavesLedger

handleStake(address, instance, text) ==
    StartEncryptedAction("handleStake", address, instance, text)

handleWithdraw(address, instance, text) ==
    StartEncryptedAction("handleWithdraw", address, instance, text)

\* await ensureSigner(): throws when the signer is unavailable.
ensureSigner(available) ==
    /\ app.pc = "signer"
    /\ LET a == [app EXCEPT !.last = Step("ensureSigner")]
       IN  app' = IF ~available THEN Caught(a)
                  ELSE IF a.run.handler = "handleClaim"
                  THEN [a EXCEPT !.feedback = "info", !.pc = "send"]
                  ELSE [a EXCEPT !.pc = "encrypt"]
    /\ ClientLeavesLedger

\* instance.createEncryptedInput, input.add32(amount), await
\* input.encrypt(): the ciphertext is created, or the relayer fails.
encrypt(created) ==
    /\ app.pc = "encrypt"
    /\ LET a == [app EXCEPT !.last = Step("encrypt")]
       IN  app' = IF created THEN [a EXCEPT !.pc = "send"] ELSE Caught(a)
    /\ ClientLeavesLedger

\* The contract call of the running handler, with the ciphertext and proof
\* the instance produced.
ContractCall ==
    LET input == [valid |-> TRUE, amount |-> Word(app.run.amount)]
    IN  CASE app.run.handler = "handleClaim" -> claimInitialGold(Account)
          [] app.run.handler = "handleStake" -> stakeGold(Account, input)
          [] app.run.handler = "handleWithdraw" ->
                 withdrawStakedGold(Account, input)

\* await contract.f(...); await tx.wait(): the wallet user rejects, or the
\* transaction is sent and reverts or confirms.
sendTransaction ==
    /\ app.pc = "send"
    /\ LET a == [app EXCEPT !.last = Step("sendTransaction")]
       IN  \/ /\ app' = Caught(a)
              /\ ClientLeavesLedger
           \/ /\ ContractCall
              /\ app' = IF tx'.reverted THEN Caught(a) ELSE Confirmed(a)

\* await refreshAll(): Promise.allSettled never throws; the refetch brings
\* the current handles or fails and leaves the old ones.  Then finally.
refreshAll(refetched) ==
    /\ app.pc = "refresh"
    /\ LET a == [app EXCEPT !.last = Step("refreshAll")]
       IN  app' = Finally(
               IF refetched
               THEN [a EXCEPT !.ciphers =
                         Ciphers(getGoldBalance(Account),
                                 getStakedBalance(Account),
                                 getLastActionStatus(Account), TRUE)]
               ELSE a)
    /\ ClientLeavesLedger

\* decryptBalances up to its first await.  Its button is disabled while
\* isDecrypting, not while isProcessing.
decryptBalances(address, instance) ==
    /\ ~app.isDecrypting
    /\ LET a == [app EXCEPT !.last = Step("decryptBalances")]
           c == app.ciphers
       IN  app' =
               IF ~instance \/ ~address THEN [a EXCEPT !.feedback = "error"]
               ELSE IF c.zero
               THEN [a EXCEPT !.decrypted = Parsed(c), !.feedback = "info"]
               ELSE [a EXCEPT !.feedback = "none",
                              !.isDecrypting = TRUE,
                              !.decrypting = c]
    /\ ClientLeavesLedger

\* The rest of decryptBalances: signTypedData and instance.userDecrypt
\* return and setDecrypted(parsed) runs, or one of them throws.
userDecrypt(decryptedOk) ==
    /\ app.isDecrypting
    /\ LET a == [app EXCEPT !.last = Step("userDecrypt"),
                            !.isDecrypting = FALSE,
                            !.decrypting = Null]
       IN  app' = IF decryptedOk
                  THEN [a EXCEPT !.decrypted = Parsed(app.decrypting),
                                 !.feedback = "success"]
                  ELSE [a EXCEPT !.feedback = "error"]
    /\ ClientLeavesLedger

\* An awaited promise of the running handler settles.
HandlerContinues ==
    \/ \E available \in BOOLEAN : ensureSigner(available)
    \/ \E created \in BOOLEAN : encrypt(created)
    \/ sendTransaction
    \/ \E refetched \in BOOLEAN : refreshAll(refetched)

NextClient ==
    \/ \E address \in BOOLEAN : handleClaim(address)
    \/ \E address \in BOOLEAN, instance \in BOOLEAN, text \in FormTexts :
           handleStake(address, instance, text)
    \/ \E address \in BOOLEAN, instance \in BOOLEAN, text \in FormTexts :
           handleWithdraw(address, instance, text)
    \/ HandlerContinues
    \/ \E address \in BOOLEAN, instance \in BOOLEAN :
           decryptBalances(address, instance)
    \/ \E decryptedOk \in BOOLEAN : userDecrypt(decryptedOk)

\* Every promise a handler awaits settles, fulfilled or rejected.
SpecClient == Init /\ [][NextClient]_vars /\ WF_vars(HandlerContinues)

\* C33: every run of handleClaim, handleStake or handleWithdraw that sets
\* isProcessing sets it back: isProcessing is false whenever no handler is
\* running, and whenever it is true it is false again later.
C33_ProcessingReset ==
    /\ [](app.pc = "idle" => ~app.isProcessing)
    /\ (app.isProcessing ~> ~app.isProcessing)

\* C33 witness: a handler has just finished through its catch while a
\* decryptBalances run is still under way.
C33_Witness ==
    /\ app.pc = "idle"
    /\ app.last.step = "sendTransaction"
    /\ app.feedback = "error"
    /\ app.isDecrypting
    /\ ~app.isProcessing

\* The running handler's transaction has just been confirmed / the handler
\* that saw its action confirmed has just finished / the handler has just
\* failed.
ActionConfirmed == app.pc # "refresh" /\ app'.pc = "refresh"

ConfirmedHandlerFinishes == app.pc = "refresh" /\ app'.pc = "idle"

ActionFailed ==
    /\ app'.last.step \in {"handleClaim", "handleStake", "handleWithdraw",
                           "ensureSigner", "encrypt", "sendTransaction"}
    /\ app'.pc = "idle"

\* C34 (as claimed): the cached decrypted values are null when a handler
\* that saw its action confirmed finishes, decrypted values on display were
\* never computed from handles older than the client's latest confirmed
\* action, and a failed action leaves the cached decrypted values as they
\* were.
C34_NoStaleDecrypted ==
    /\ [](app.decrypted # Null => app.decrypted.fresh)
    /\ [][/\ ActionConfirmed => app'.decrypted = Null
          /\ ConfirmedHandlerFinishes => app'.decrypted = Null
          /\ ActionFailed => app'.decrypted = app.decrypted]_vars

\* C35: a handleStake or handleWithdraw call that finds no address, no
\* encryption instance, or an amount that is NaN or not strictly positive
\* sends no transaction and creates no ciphertext: the handler ends at once
\* with an error feedback and the ledger and its last receipt are as they
\* were; a ciphertext is created, and a stakeGold or withdrawStakedGold
\* transaction sent, only for a strictly positive amount.
C35_InvalidActionSendsNothing ==
    /\ [](app.pc \in {"encrypt", "send"}
             => \/ app.run.handler = "handleClaim"
                \/ app.run.amount > 0)
    /\ [][/\ (/\ app'.last.step \in {"handleStake", "handleWithdraw"}
              /\ \/ ~app'.last.address
                 \/ ~app'.last.instance
                 \/ Number(app'.last.text).nan
                 \/ Number(app'.last.text).value <= 0)
                 => /\ app'.pc = "idle"
                    /\ app'.run = Null
                    /\ app'.feedback = "error"
                    /\ ~app'.isProcessing
                    /\ UNCHANGED <<ledger, goldClaimedCount, tx>>
          /\ (tx' # tx /\ tx'.fn \in MovesStake)
                 => /\ app.pc = "send"
                    /\ app.run.amount > 0
                    /\ tx'.input = ValidInput(Word(app.run.amount))]_vars

\* C35 witness: handleStake has just ended with an error on text that is no
\* number, with wallet and encryption instance present, after an earlier
\* transaction of this client.
C35_Witness ==
    /\ app.last.step = "handleStake"
    /\ app.last.address
    /\ app.last.instance
    /\ Number(app.last.text).nan
    /\ app.feedback = "error"
    /\ app.pc = "idle"
    /\ tx.fn = "claimInitialGold"

====
